---- MODULE Spec2Model ----
(***************************************************************************)
(* Model of the Web303 practical 2 system: the API gateway                 *)
(* (api-gateway/main.go: routeRequest, discoverService), the backend       *)
(* services that register with Consul (users-service, products-service)    *)
(* and the Consul catalog with its HTTP health checks; and of practical 6: *)
(* handleGRPCError of the gRPC gateway and the REST handlers of the user   *)
(* and menu services on their tables.                                      *)
(*                                                                         *)
(* Strings are sequences of symbols; a symbol is a run of characters that  *)
(* contains no "/" unless it is the symbol "/" itself, so that             *)
(* concatenation of strings is concatenation of sequences.                 *)
(***************************************************************************)
EXTENDS Integers, Sequences, FiniteSets, TLC

VARIABLES
    deploy,     \* the backend processes that exist in this run
    proc,       \* per backend process: "down", "registered", "listening", "exited"
    catalog,    \* the Consul catalog: a set of service records, keyed by ID
    req,        \* per gateway handler slot: the request being handled
    tPath,      \* path handed to the path-parsing steps of routeRequest
    tOut,       \* what those steps derived from tPath
    probing,    \* the IDs of the records whose health check is under way
    silent,     \* the peers that accept connections and never answer
    gcall,      \* practical 6 gateway: per call of handleGRPCError, error and response
    DB,         \* practical 6 services: the users and menus tables
    hreq        \* practical 6 services: per handler slot, the REST call being handled

vars == <<deploy, proc, catalog, req, tPath, tOut, probing, silent, gcall, DB, hreq>>

------------------------------------------------------------------------------
(* Bounds *)

\* how many inserts the tables of practical 6 see in a run
MaxRows == 3

MaxPathLen == 8

PathSyms == {"/", "api", "users", "7"}

Reqs == {"r1", "r2"}

------------------------------------------------------------------------------
(* Strings *)

Slash == "/"

None == [none |-> TRUE]

\* strings.TrimPrefix(s, "/")
TrimPrefix(s) ==
    IF Len(s) > 0 /\ s[1] = Slash THEN SubSeq(s, 2, Len(s)) ELSE s

SlashIdx(s) == {i \in 1..Len(s) : s[i] = Slash}

FirstSlash(s) == CHOOSE i \in SlashIdx(s) : \A j \in SlashIdx(s) : i <= j

RECURSIVE Split(_)
\* strings.Split(s, "/"): the pieces between the separators, at least one
Split(s) ==
    IF SlashIdx(s) = {} THEN <<s>>
    ELSE <<SubSeq(s, 1, FirstSlash(s) - 1)>>
            \o Split(SubSeq(s, FirstSlash(s) + 1, Len(s)))

RECURSIVE Join(_)
\* strings.Join(parts, "/")
Join(parts) ==
    IF Len(parts) = 0 THEN <<>>
    ELSE IF Len(parts) = 1 THEN parts[1]
    ELSE parts[1] \o <<Slash>> \o Join(Tail(parts))

------------------------------------------------------------------------------
(* routeRequest: the path-derived values *)

PathParts(path) == Split(TrimPrefix(path))

MalformedPathMut(pathParts) == Len(pathParts) < 2 \/ pathParts[1] # <<"api">>

MalformedPath(pathParts) == Len(pathParts) < 3 \/ pathParts[1] # <<"api">>

ServiceNameOf(pathParts) == pathParts[2] \o <<"-service">>

ForwardPathMut(pathParts) == <<Slash>> \o pathParts[Len(pathParts)]

ForwardPath(pathParts) == <<Slash>> \o Join(SubSeq(pathParts, 3, Len(pathParts)))

RouteParse(path) ==
    LET pathParts == PathParts(path) IN
    IF MalformedPath(pathParts)
    THEN [ok |-> FALSE, status |-> 400]
    ELSE [ok |-> TRUE,
          serviceName |-> ServiceNameOf(pathParts),
          forwardPath |-> ForwardPath(pathParts)]

------------------------------------------------------------------------------
(* Backend services and their deployment *)

UsersServiceName == <<"users", "-service">>

UsersServicePort == "8081"

ProductsServiceName == <<"products", "-service">>

ProductsServicePort == "8082"

\* a third service of the deployment whose handlers are not part of the
\* gateway's source: the gateway forwards to whatever is registered
OrdersServiceName == <<"orders", "-service">>

OrdersServicePort == "8083"

H1 == <<"h1">>

H2 == <<"h2">>

\* a hostname with a space in it: url.Parse rejects it
HBad == <<"h", " ", "3">>

\* the hostnames in the order of their strings
SortedHosts == <<HBad, H1, H2>>

Inst(kind, name, port, host) ==
    [kind |-> kind, serviceName |-> name, servicePort |-> port, hostname |-> host]

UsersAt(h) == Inst("users", UsersServiceName, UsersServicePort, h)

ProductsAt(h) == Inst("products", ProductsServiceName, ProductsServicePort, h)

OrdersAt(h) == Inst("orders", OrdersServiceName, OrdersServicePort, h)

Instances == {UsersAt(H1), UsersAt(H2), ProductsAt(H1), ProductsAt(HBad), OrdersAt(H1)}

\* the runs differ in which processes exist
Deployments ==
    { {UsersAt(H1), UsersAt(H2)},
      {ProductsAt(H1)},
      {ProductsAt(HBad)},
      {OrdersAt(H1)} }

\* the AgentServiceCheck sets no FailuresBeforeCritical: the first failed
\* probe makes the check critical
FailuresBeforeCritical == 1

\* registerWithConsul: the AgentServiceRegistration; Consul starts a new
\* HTTP check in state critical until its first probe passes
Registration(i) ==
    [ID      |-> i.serviceName \o <<"-">> \o i.hostname,
     Name    |-> i.serviceName,
     Port    |-> i.servicePort,
     Address |-> i.hostname,
     Status  |-> "critical",
     Fails   |-> 0]

\* a registry that files every registration as a new record
ServiceRegisterMut(cat, reg) == cat \cup {reg}

\* Agent().ServiceRegister: a record with the same ID is replaced
ServiceRegister(cat, reg) == {e \in cat : e.ID # reg.ID} \cup {reg}

\* who accepts connections at hostname:port
Listening(host, port) ==
    {i \in deploy : i.hostname = host /\ i.servicePort = port /\ proc[i] = "listening"}

\* who answers a request sent to hostname:port
Answering(host, port) == {i \in Listening(host, port) : i \notin silent}

\* main of a backend: registerWithConsul succeeded
Register(i) ==
    /\ i \in deploy
    /\ proc[i] \in {"down", "exited"}
    /\ catalog' = ServiceRegister(catalog, Registration(i))
    /\ proc' = [proc EXCEPT ![i] = "registered"]
    /\ UNCHANGED <<deploy, req, tPath, tOut, probing, silent, gcall, DB, hreq>>

\* main of a backend: registerWithConsul returned an error (no client, no
\* hostname, ServiceRegister refused) and log.Fatalf ends the process
RegisterFail(i) ==
    /\ i \in deploy
    /\ proc[i] \in {"down", "exited"}
    /\ proc' = [proc EXCEPT ![i] = "exited"]
    /\ UNCHANGED <<deploy, catalog, req, tPath, tOut, probing, silent, gcall, DB, hreq>>

\* main of a backend: http.ListenAndServe returned an error (the port is
\* taken) and log.Fatalf ends the process; its record stays
ListenFail(i) ==
    /\ i \in deploy
    /\ proc[i] = "registered"
    /\ proc' = [proc EXCEPT ![i] = "exited"]
    /\ UNCHANGED <<deploy, catalog, req, tPath, tOut, probing, silent, gcall, DB, hreq>>

\* a main that serves without a registration
ListenMut(i) ==
    /\ i \in deploy
    /\ proc[i] \in {"down", "exited", "registered"}
    /\ proc' = [proc EXCEPT ![i] = "listening"]
    /\ UNCHANGED <<deploy, catalog, req, tPath, tOut, probing, silent, gcall, DB, hreq>>

\* main of a backend: http.ListenAndServe
Listen(i) ==
    /\ i \in deploy
    /\ proc[i] = "registered"
    /\ proc' = [proc EXCEPT ![i] = "listening"]
    /\ UNCHANGED <<deploy, catalog, req, tPath, tOut, probing, silent, gcall, DB, hreq>>

\* the process ends (killed, crashed); nothing deregisters the record
Stop(i) ==
    /\ i \in deploy
    /\ proc[i] \in {"registered", "listening"}
    /\ proc' = [proc EXCEPT ![i] = "down"]
    /\ UNCHANGED <<deploy, catalog, req, tPath, tOut, probing, silent, gcall, DB, hreq>>

\* a check that counts the failure but never turns critical
ProbedMut(e, ok) ==
    IF ok THEN [e EXCEPT !.Status = "passing", !.Fails = 0]
    ELSE [e EXCEPT !.Fails = IF @ < FailuresBeforeCritical THEN @ + 1 ELSE @]

\* the record after a probe of its check: a success makes it passing, the
\* FailuresBeforeCritical-th failure in a row makes it critical
Probed(e, ok) ==
    IF ok THEN [e EXCEPT !.Status = "passing", !.Fails = 0]
    ELSE LET f == IF e.Fails < FailuresBeforeCritical THEN e.Fails + 1 ELSE e.Fails IN
         [e EXCEPT !.Fails = f,
                   !.Status = IF f >= FailuresBeforeCritical THEN "critical" ELSE @]

\* Consul runs the record's HTTP check: GET http://<hostname>:<port>/health
\* (Interval 10s, Timeout 1s); it passes when the service answers
Probe(e) ==
    /\ e \in catalog
    /\ LET new == Probed(e, Answering(e.Address, e.Port) # {}) IN
       /\ new # e
       /\ catalog' = (catalog \ {e}) \cup {new}
    /\ UNCHANGED <<deploy, proc, req, tPath, tOut, probing, silent, gcall, DB, hreq>>

\* the chi router of users-service / products-service, and the handlers
RouterResponse(i, method, path) ==
    LET parts == Split(path)
        res   == IF i.kind = "users" THEN <<"users">> ELSE <<"products">> IN
    IF path = <<Slash, "health">>
    THEN IF method = "GET"
         THEN [status |-> 200, body |-> IF i.kind = "users" THEN <<"OK">> ELSE <<"Healthy">>]
         ELSE [status |-> 405, body |-> <<>>]
    ELSE IF Len(parts) = 3 /\ parts[1] = <<>> /\ parts[2] = res /\ parts[3] # <<>>
    THEN IF method = "GET"
         THEN [status |-> 200,
               body |-> IF i.kind = "users"
                        THEN <<"User Data - Service: ">> \o i.serviceName
                                \o <<", ID: ">> \o parts[3] \o <<"\n">>
                        ELSE <<"Product Info - Service: ">> \o i.serviceName
                                \o <<", Product ID: ">> \o parts[3] \o <<"\n">>]
         ELSE [status |-> 405, body |-> <<>>]
    ELSE [status |-> 404, body |-> <<"404 page not found", "\n">>]

\* what a backend the source does not define may answer
OtherResponses ==
    { [status |-> 200, body |-> <<"order">>],
      [status |-> 500, body |-> <<"internal error">>] }

BackendResponses(i, method, path) ==
    IF i.kind = "orders" THEN OtherResponses ELSE {RouterResponse(i, method, path)}

------------------------------------------------------------------------------
(* The gateway *)

\* the requests the clients send
InboundRequests ==
    LET Get(p)  == [method |-> "GET", path |-> p, body |-> <<>>,
                    headers |-> {<<"Accept", "*/*">>}]
        Post(p) == [method |-> "POST", path |-> p, body |-> <<"{}">>,
                    headers |-> {<<"Accept", "*/*">>, <<"Connection", "keep-alive">>}]
    IN { Get(<<"/", "api", "/", "users", "/", "7">>),
         Get(<<"/", "api", "/", "users", "/", "users", "/", "7">>),
         Get(<<"/", "api", "/", "users">>),
         Get(<<"/", "api">>),
         Get(<<"/", "bogus">>),
         Get(<<"/", "api", "/", "products", "/", "products", "/", "7">>),
         Get(<<"/", "api", "/", "orders", "/", "7">>),
         Post(<<"/", "api", "/", "users", "/", "users", "/", "7">>) }

IdleReq == [pc |-> "Idle"]

\* the Consul agent as a peer of the gateway
ConsulPeer == [peer |-> "consul"]

\* practical 6: the calls of handleGRPCError and the REST handler calls
GSlots == {"g1", "g2"}

HSlots == {"h1", "h2"}

IdleCall == [pc |-> "Idle"]

\* practical 6: the tables after migration, and their id sequences
EmptyDB == [users |-> {}, menus |-> {}, userSeq |-> 0, menuSeq |-> 0]

\* the address of the client, as the proxy records it
ClientIP == "10.0.0.9"

\* the query without passingOnly
HealthServiceMut(cat, serviceName) ==
    LET Registered(h) == {e \in cat : e.Name = serviceName /\ e.Address = h}
        RECURSIVE Collect(_)
        Collect(k) == IF k > Len(SortedHosts) THEN <<>>
                      ELSE (IF Registered(SortedHosts[k]) = {} THEN <<>>
                            ELSE <<CHOOSE e \in Registered(SortedHosts[k]) : TRUE>>)
                           \o Collect(k + 1)
    IN Collect(1)

\* client.Health().Service(serviceName, "", true, nil): the passing records
\* of that name, in the order of their IDs
HealthService(cat, serviceName) ==
    LET Passing(h) == {e \in cat : e.Name = serviceName /\ e.Address = h
                                    /\ e.Status = "passing"}
        RECURSIVE Collect(_)
        Collect(k) == IF k > Len(SortedHosts) THEN <<>>
                      ELSE (IF Passing(SortedHosts[k]) = {} THEN <<>>
                            ELSE <<CHOOSE e \in Passing(SortedHosts[k]) : TRUE>>)
                           \o Collect(k + 1)
    IN Collect(1)

\* fmt.Sprintf("http://%s:%d", instance.Address, instance.Port)
Endpoint(instance) == <<"http://">> \o instance.Address \o <<":", instance.Port>>

\* url.Parse with its error dropped
UrlParseMut(endpoint) ==
    [err |-> "", Scheme |-> "http", Host |-> Tail(endpoint), Path |-> <<>>]

\* url.Parse of such an endpoint: the scheme, then the authority, which must
\* not hold a character that is invalid in a host
UrlParse(endpoint) ==
    LET authority == Tail(endpoint) IN
    IF \E k \in 1..Len(authority) : authority[k] = " "
    THEN [err |-> "invalid character in host name"]
    ELSE [err |-> "", Scheme |-> "http", Host |-> authority, Path |-> <<>>]

\* httputil: singleJoiningSlash
SingleJoiningSlash(a, b) ==
    LET aslash == Len(a) > 0 /\ a[Len(a)] = Slash
        bslash == Len(b) > 0 /\ b[1] = Slash IN
    IF aslash /\ bslash THEN a \o Tail(b)
    ELSE IF ~aslash /\ ~bslash THEN a \o <<Slash>> \o b
    ELSE a \o b

\* httputil.ReverseProxy: the headers it never forwards
HopByHop == {"Connection", "Proxy-Connection", "Keep-Alive", "Proxy-Authenticate",
             "Proxy-Authorization", "Te", "Trailer", "Transfer-Encoding", "Upgrade"}

\* a proxy that builds its request with a fixed method
OutboundMut(r, targetURL, urlPath) ==
    [method  |-> "GET",
     body    |-> r.body,
     url     |-> [Scheme |-> targetURL.Scheme, Host |-> targetURL.Host,
                  Path |-> SingleJoiningSlash(targetURL.Path, urlPath)],
     headers |-> {h \in r.headers : h[1] \notin HopByHop}
                    \cup {<<"X-Forwarded-For", ClientIP>>}]

\* the request httputil.NewSingleHostReverseProxy(targetURL) sends for r
\* once routeRequest has set r.URL.Path
Outbound(r, targetURL, urlPath) ==
    [method  |-> r.method,
     body    |-> r.body,
     url     |-> [Scheme |-> targetURL.Scheme, Host |-> targetURL.Host,
                  Path |-> SingleJoiningSlash(targetURL.Path, urlPath)],
     headers |-> {h \in r.headers : h[1] \notin HopByHop}
                    \cup {<<"X-Forwarded-For", ClientIP>>}]

\* an error response that only writes the status
HttpErrorMut(msg, code) == [status |-> code, body |-> <<>>]

\* http.Error(w, msg, code)
HttpError(msg, code) == [status |-> code, body |-> <<msg, "\n">>]

\* an error handler that answers 500
BadGatewayMut == [status |-> 500, body |-> <<>>]

\* ReverseProxy's default ErrorHandler
BadGateway == [status |-> 502, body |-> <<>>]

\* a proxy that replaces a backend's server error by its own
ProxyResponseMut(b) == IF b.status >= 500 THEN BadGateway ELSE b

\* ReverseProxy copies the backend's status and body to the caller
ProxyResponse(b) == b

Step(r, pc) == [r EXCEPT !.pc = pc, !.steps = @ \o <<pc>>]

Fail(r, resp) == [Step(r, "Failed") EXCEPT !.resp = resp]

\* log.Printf(format, args...): a line of the gateway's log
Logged(r, format, args) == [r EXCEPT !.log = @ \o <<[format |-> format, args |-> args]>>]

\* (*url.URL).String() of a parsed endpoint
UrlString(u) == <<"http://">> \o u.Host \o u.Path

\* routeRequest without the log line for a discovery error
DiscoveryFailedMut(r, err) == Fail(r, HttpError("Service not available", 503))

\* routeRequest: discoverService returned err
DiscoveryFailed(r, err) ==
    Fail(Logged(r, "Service discovery failed for '%s': %v", <<r.serviceName, err>>),
         HttpError("Service not available", 503))

\* ReverseProxy's default ErrorHandler: log the error, answer 502
ProxyError(r) ==
    Fail(Logged(r, "http: proxy error: %v", <<<<"dial tcp: connection refused">>>>),
         BadGateway)

RECURSIVE Squeeze(_)
\* a path with every run of slashes replaced by one slash
Squeeze(p) ==
    IF Len(p) < 2 THEN p
    ELSE IF p[1] = Slash /\ p[2] = Slash THEN Squeeze(Tail(p))
    ELSE <<p[1]>> \o Squeeze(Tail(p))

\* a mux that takes every path as it comes
CleanPathMut(p) == p

\* net/http cleanPath, as the ServeMux of main applies it: a leading slash,
\* no repeated slashes, a trailing slash kept (the paths here have no "."
\* and no ".." elements)
CleanPath(p) ==
    IF p = <<>> THEN <<Slash>>
    ELSE Squeeze(IF p[1] # Slash THEN <<Slash>> \o p ELSE p)

\* http.Redirect(w, r, url, http.StatusMovedPermanently)
RedirectResponse(url) ==
    [status |-> 301, location |-> url,
     body |-> <<"<a href=\"">> \o url \o <<"\">Moved Permanently</a>.", "\n", "\n">>]

\* the ServeMux of main answers a request whose path is not clean itself,
\* with a redirect to the clean path; routeRequest is not called
Redirect(s, in) ==
    /\ req[s].pc = "Idle"
    /\ in.method # "CONNECT"
    /\ CleanPath(in.path) # in.path
    /\ req' = [req EXCEPT ![s] =
                 [pc |-> "Redirected", steps |-> <<"Redirected">>, log |-> <<>>,
                  method |-> in.method, path |-> in.path,
                  headers |-> in.headers, body |-> in.body,
                  pathParts |-> <<>>, serviceName |-> <<>>,
                  healthyInstances |-> <<>>, targetURL |-> None,
                  outbound |-> None, backend |-> None, backendResp |-> None,
                  resp |-> RedirectResponse(CleanPath(in.path)),
                  nResolve |-> 0, nForward |-> 0]]
    /\ UNCHANGED <<deploy, proc, catalog, tPath, tOut, probing, silent, gcall, DB, hreq>>

\* the server hands a request to routeRequest: the ServeMux of main passes
\* on the requests with a clean path, and the CONNECT requests as they are
Receive(s, in) ==
    /\ req[s].pc = "Idle"
    /\ in.method = "CONNECT" \/ CleanPath(in.path) = in.path
    /\ req' = [req EXCEPT ![s] =
                 [pc |-> "Received", steps |-> <<"Received">>,
                  log |-> <<[format |-> "Incoming request: %s %s",
                             args |-> <<<<in.method>>, in.path>>]>>,
                  method |-> in.method, path |-> in.path,
                  headers |-> in.headers, body |-> in.body,
                  pathParts |-> <<>>, serviceName |-> <<>>,
                  healthyInstances |-> <<>>, targetURL |-> None,
                  outbound |-> None, backend |-> None, backendResp |-> None,
                  resp |-> None, nResolve |-> 0, nForward |-> 0]]
    /\ UNCHANGED <<deploy, proc, catalog, tPath, tOut, probing, silent, gcall, DB, hreq>>

\* routeRequest with the service name in a package-level variable
ParsePathShared(s) ==
    /\ req[s].pc = "Received"
    /\ LET r == req[s]
           pathParts == PathParts(r.path) IN
       req' = IF MalformedPath(pathParts)
              THEN [req EXCEPT ![s] = Fail(r, HttpError("Invalid path format", 400))]
              ELSE [t \in Reqs |->
                      IF t = s
                      THEN [Step(r, "Parsed") EXCEPT !.pathParts = pathParts,
                                                     !.serviceName = ServiceNameOf(pathParts)]
                      ELSE IF req[t].pc = "Parsed"
                      THEN [req[t] EXCEPT !.serviceName = ServiceNameOf(pathParts)]
                      ELSE req[t]]
    /\ UNCHANGED <<deploy, proc, catalog, tPath, tOut, probing, silent, gcall, DB, hreq>>

\* routeRequest without the return after http.Error
ParsePathMut(s) ==
    /\ req[s].pc = "Received"
    /\ LET r == req[s]
           pathParts == PathParts(r.path) IN
       req' = [req EXCEPT ![s] =
                 [Step(r, "Parsed") EXCEPT
                    !.resp = IF MalformedPath(pathParts)
                             THEN HttpError("Invalid path format", 400) ELSE None,
                    !.pathParts = pathParts,
                    !.serviceName = IF Len(pathParts) >= 2
                                    THEN ServiceNameOf(pathParts) ELSE <<>>]]
    /\ UNCHANGED <<deploy, proc, catalog, tPath, tOut, probing, silent, gcall, DB, hreq>>

\* routeRequest: split the path, reject a malformed one
ParsePath(s) ==
    /\ req[s].pc = "Received"
    /\ LET r == req[s]
           pathParts == PathParts(r.path) IN
       req' = [req EXCEPT ![s] =
                 IF MalformedPath(pathParts)
                 THEN Fail(r, HttpError("Invalid path format", 400))
                 ELSE [Step(r, "Parsed") EXCEPT !.pathParts = pathParts,
                                                !.serviceName = ServiceNameOf(pathParts)]]
    /\ UNCHANGED <<deploy, proc, catalog, tPath, tOut, probing, silent, gcall, DB, hreq>>

\* a registry that answers no query while a health check is under way
QueryConsulMut(s) ==
    /\ req[s].pc = "Parsed"
    /\ probing = {}
    /\ LET r == [req[s] EXCEPT !.nResolve = @ + 1] IN
       req' = [req EXCEPT ![s] =
                 [Step(r, "Queried") EXCEPT
                    !.healthyInstances = HealthService(catalog, r.serviceName)]]
    /\ UNCHANGED <<deploy, proc, catalog, tPath, tOut, probing, silent, gcall, DB, hreq>>

\* discoverService: create the client and query Consul; neither the client
\* of DefaultConfig nor the call (QueryOptions nil) has a timeout, so the call
\* returns when Consul answers or the connection fails
QueryConsul(s) ==
    /\ req[s].pc = "Parsed"
    /\ ConsulPeer \notin silent
    /\ LET r == [req[s] EXCEPT !.nResolve = @ + 1] IN
       \E outcome \in {"ok", "client error", "query failed"} :
         req' = [req EXCEPT ![s] =
                   IF outcome = "ok"
                   THEN [Step(r, "Queried") EXCEPT
                            !.healthyInstances = HealthService(catalog, r.serviceName)]
                   ELSE IF outcome = "client error"
                   THEN DiscoveryFailed(r, <<"consul client error: ", "config">>)
                   ELSE DiscoveryFailed(r, <<"consul query failed for '">> \o r.serviceName
                                              \o <<"': ", "connection refused">>)]
    /\ UNCHANGED <<deploy, proc, catalog, tPath, tOut, probing, silent, gcall, DB, hreq>>

\* a discoverService that balances over the instances of the answer
DiscoverReturnAny(s) ==
    /\ req[s].pc = "Queried"
    /\ LET r == req[s] IN
       IF Len(r.healthyInstances) = 0
       THEN req' = [req EXCEPT ![s] =
                      DiscoveryFailed(r, <<"no healthy instances available for '">>
                                            \o r.serviceName \o <<"'">>)]
       ELSE \E k \in 1..Len(r.healthyInstances) :
              LET endpoint == Endpoint(r.healthyInstances[k])
                  u == UrlParse(endpoint) IN
              req' = [req EXCEPT ![s] =
                        IF u.err # ""
                        THEN DiscoveryFailed(r, <<"parse \"">> \o endpoint
                                                   \o <<"\": ", u.err>>)
                        ELSE [Step(Logged(r, "Located service at: %s", <<UrlString(u)>>),
                                   "Resolved") EXCEPT !.targetURL = u]]
    /\ UNCHANGED <<deploy, proc, catalog, tPath, tOut, probing, silent, gcall, DB, hreq>>

\* a discoverService that puts the error text into the response
DiscoverReturnLeak(s) ==
    /\ req[s].pc = "Queried"
    /\ LET r == req[s] IN
       req' = [req EXCEPT ![s] =
                 IF Len(r.healthyInstances) = 0
                 THEN DiscoveryFailed(r, <<"no healthy instances available for '">>
                                            \o r.serviceName \o <<"'">>)
                 ELSE LET endpoint == Endpoint(r.healthyInstances[1])
                          u == UrlParse(endpoint) IN
                      IF u.err # ""
                      THEN [DiscoveryFailed(r, <<"parse \"">> \o endpoint
                                                  \o <<"\": ", u.err>>)
                              EXCEPT !.resp = [status |-> 503,
                                               body |-> <<"parse \"">> \o endpoint
                                                          \o <<"\": ", u.err, "\n">>]]
                      ELSE [Step(Logged(r, "Located service at: %s", <<UrlString(u)>>),
                                 "Resolved") EXCEPT !.targetURL = u]]
    /\ UNCHANGED <<deploy, proc, catalog, tPath, tOut, probing, silent, gcall, DB, hreq>>

\* discoverService: pick the first instance of the answer and parse its URL
DiscoverReturn(s) ==
    /\ req[s].pc = "Queried"
    /\ LET r == req[s] IN
       req' = [req EXCEPT ![s] =
                 IF Len(r.healthyInstances) = 0
                 THEN DiscoveryFailed(r, <<"no healthy instances available for '">>
                                            \o r.serviceName \o <<"'">>)
                 ELSE LET endpoint == Endpoint(r.healthyInstances[1])
                          u == UrlParse(endpoint) IN
                      IF u.err # ""
                      THEN DiscoveryFailed(r, <<"parse \"">> \o endpoint
                                                 \o <<"\": ", u.err>>)
                      ELSE [Step(Logged(r, "Located service at: %s", <<UrlString(u)>>),
                                 "Resolved") EXCEPT !.targetURL = u]]
    /\ UNCHANGED <<deploy, proc, catalog, tPath, tOut, probing, silent, gcall, DB, hreq>>

\* the processes that accept connections at the host:port of a URL
Accepting(url) ==
    Listening(SubSeq(url.Host, 1, Len(url.Host) - 2), url.Host[Len(url.Host)])

\* a gateway that resolves again when the connection fails
ForwardMut(s) ==
    /\ req[s].pc = "Resolved"
    /\ LET r   == [req[s] EXCEPT !.nForward = @ + 1]
           out == Outbound(r, r.targetURL, ForwardPath(r.pathParts)) IN
       IF Accepting(out.url) = {}
       THEN req' = [req EXCEPT ![s] = Step(r, "Parsed")]
       ELSE \E i \in Accepting(out.url) :
              req' = [req EXCEPT ![s] =
                        [Step(r, "Forwarded") EXCEPT !.outbound = out, !.backend = i]]
    /\ UNCHANGED <<deploy, proc, catalog, tPath, tOut, probing, silent, gcall, DB, hreq>>

\* routeRequest: rewrite the path; reverseProxy.ServeHTTP connects and sends
Forward(s) ==
    /\ req[s].pc = "Resolved"
    /\ LET urlPath == ForwardPath(req[s].pathParts)
           r   == Logged([req[s] EXCEPT !.nForward = @ + 1], "Proxying to: %s%s",
                         <<UrlString(req[s].targetURL), urlPath>>)
           out == Outbound(r, r.targetURL, urlPath) IN
       IF Accepting(out.url) = {}
       THEN req' = [req EXCEPT ![s] =
                      [ProxyError(r) EXCEPT !.outbound = out]]
       ELSE \E i \in Accepting(out.url) :
              req' = [req EXCEPT ![s] =
                        [Step(r, "Forwarded") EXCEPT !.outbound = out, !.backend = i]]
    /\ UNCHANGED <<deploy, proc, catalog, tPath, tOut, probing, silent, gcall, DB, hreq>>

\* a gateway that answers from the last good response of the service
RespondCached(s) ==
    /\ req[s].pc = "Forwarded"
    /\ LET r == req[s]
           Hits == {t \in Reqs \ {s} : /\ req[t].pc = "Responded"
                                       /\ req[t].serviceName = r.serviceName
                                       /\ req[t].resp.status = 200} IN
       IF proc[r.backend] # "listening"
       THEN req' = [req EXCEPT ![s] = ProxyError(r)]
       ELSE \E b \in BackendResponses(r.backend, r.outbound.method, r.outbound.url.Path) :
              req' = [req EXCEPT ![s] =
                        [Step(r, "Responded") EXCEPT
                           !.backendResp = b,
                           !.resp = IF Hits # {}
                                    THEN req[CHOOSE t \in Hits : TRUE].resp
                                    ELSE ProxyResponse(b)]]
    /\ UNCHANGED <<deploy, proc, catalog, tPath, tOut, probing, silent, gcall, DB, hreq>>

\* reverseProxy.ServeHTTP: copy the backend's response to the caller; the
\* default transport waits for the response headers without a timeout
Respond(s) ==
    /\ req[s].pc = "Forwarded"
    /\ proc[req[s].backend] = "listening" => req[s].backend \notin silent
    /\ LET r == req[s] IN
       IF proc[r.backend] # "listening"
       THEN req' = [req EXCEPT ![s] = ProxyError(r)]
       ELSE \E b \in BackendResponses(r.backend, r.outbound.method, r.outbound.url.Path) :
              req' = [req EXCEPT ![s] =
                        [Step(r, "Responded") EXCEPT !.backendResp = b,
                                                      !.resp = ProxyResponse(b)]]
    /\ UNCHANGED <<deploy, proc, catalog, tPath, tOut, probing, silent, gcall, DB, hreq>>

\* a gateway whose handler never returns after a failure
FinishMut(s) ==
    /\ req[s].pc = "Responded"
    /\ req' = [req EXCEPT ![s] = IdleReq]
    /\ UNCHANGED <<deploy, proc, catalog, tPath, tOut, probing, silent, gcall, DB, hreq>>

\* the handler returned; the server can run another one
Finish(s) ==
    /\ req[s].pc \in {"Responded", "Failed", "Redirected"}
    /\ req' = [req EXCEPT ![s] = IdleReq]
    /\ UNCHANGED <<deploy, proc, catalog, tPath, tOut, probing, silent, gcall, DB, hreq>>

------------------------------------------------------------------------------
(* The system *)

Init ==
    /\ deploy \in Deployments
    /\ proc = [i \in Instances |-> "down"]
    /\ catalog = {}
    /\ req = [s \in Reqs |-> IdleReq]
    /\ tPath = <<>>
    /\ tOut = None
    /\ probing = {}
    /\ silent = {}
    /\ gcall = [g \in GSlots |-> IdleCall]
    /\ DB = EmptyDB
    /\ hreq = [h \in HSlots |-> IdleCall]

Next ==
    \/ \E i \in Instances : Register(i)
    \/ \E i \in Instances : Listen(i)
    \/ \E i \in Instances : Stop(i)
    \/ \E e \in catalog : Probe(e)
    \/ \E s \in Reqs, in \in InboundRequests : Receive(s, in)
    \/ \E s \in Reqs : ParsePath(s)
    \/ \E s \in Reqs : QueryConsul(s)
    \/ \E s \in Reqs : DiscoverReturn(s)
    \/ \E s \in Reqs : Forward(s)
    \/ \E s \in Reqs : Respond(s)
    \/ \E s \in Reqs : Finish(s)

Spec == Init /\ [][Next]_vars

------------------------------------------------------------------------------
(* The same system with a health check that takes time: Consul starts the
   check's HTTP request and, up to the Timeout later, records its outcome *)

ProbeStart(e) ==
    /\ e \in catalog
    /\ e.ID \notin probing
    /\ probing' = probing \cup {e.ID}
    /\ UNCHANGED <<deploy, proc, catalog, req, tPath, tOut, silent, gcall, DB, hreq>>

ProbeFinish(id) ==
    /\ id \in probing
    /\ probing' = probing \ {id}
    /\ catalog' = {IF e.ID = id THEN Probed(e, Answering(e.Address, e.Port) # {}) ELSE e :
                     e \in catalog}
    /\ UNCHANGED <<deploy, proc, req, tPath, tOut, silent, gcall, DB, hreq>>

InitProbe ==
    /\ deploy = {UsersAt(H1)}
    /\ proc = [i \in Instances |-> "down"]
    /\ catalog = {}
    /\ req = [s \in Reqs |-> IdleReq]
    /\ tPath = <<>>
    /\ tOut = None
    /\ probing = {}
    /\ silent = {}
    /\ gcall = [g \in GSlots |-> IdleCall]
    /\ DB = EmptyDB
    /\ hreq = [h \in HSlots |-> IdleCall]

NextProbe ==
    \/ \E i \in Instances : Register(i)
    \/ \E i \in Instances : Listen(i)
    \/ \E i \in Instances : Stop(i)
    \/ \E e \in catalog : ProbeStart(e)
    \/ \E id \in probing : ProbeFinish(id)
    \/ \E s \in Reqs, in \in InboundRequests : Receive(s, in)
    \/ \E s \in Reqs : ParsePath(s)
    \/ \E s \in Reqs : QueryConsul(s)
    \/ \E s \in Reqs : DiscoverReturn(s)
    \/ \E s \in Reqs : Forward(s)
    \/ \E s \in Reqs : Respond(s)
    \/ \E s \in Reqs : Finish(s)

ProbeSpec == InitProbe /\ [][NextProbe]_vars

------------------------------------------------------------------------------
(* The life of the backend processes, with the starts that fail *)

InitStart ==
    /\ deploy \in Deployments
    /\ proc = [i \in Instances |-> "down"]
    /\ catalog = {}
    /\ req = [s \in Reqs |-> IdleReq]
    /\ tPath = <<>>
    /\ tOut = None
    /\ probing = {}
    /\ silent = {}
    /\ gcall = [g \in GSlots |-> IdleCall]
    /\ DB = EmptyDB
    /\ hreq = [h \in HSlots |-> IdleCall]

NextStart ==
    \/ \E i \in Instances : Register(i)
    \/ \E i \in Instances : RegisterFail(i)
    \/ \E i \in Instances : Listen(i)
    \/ \E i \in Instances : ListenFail(i)
    \/ \E i \in Instances : Stop(i)
    \/ \E e \in catalog : Probe(e)

StartSpec == InitStart /\ [][NextStart]_vars

------------------------------------------------------------------------------
(* The gateway behind its ServeMux, with requests whose path is not clean *)

MuxRequests ==
    InboundRequests
      \cup {[method |-> m, path |-> <<Slash, "api", Slash, Slash, "7">>, body |-> <<>>,
              headers |-> {<<"Accept", "*/*">>}] : m \in {"GET", "CONNECT"}}

InitMux ==
    /\ deploy = {UsersAt(H1)}
    /\ proc = [i \in Instances |-> "down"]
    /\ catalog = {}
    /\ req = [s \in Reqs |-> IdleReq]
    /\ tPath = <<>>
    /\ tOut = None
    /\ probing = {}
    /\ silent = {}
    /\ gcall = [g \in GSlots |-> IdleCall]
    /\ DB = EmptyDB
    /\ hreq = [h \in HSlots |-> IdleCall]

NextMux ==
    \/ \E i \in Instances : Register(i)
    \/ \E i \in Instances : Listen(i)
    \/ \E i \in Instances : Stop(i)
    \/ \E e \in catalog : Probe(e)
    \/ \E s \in Reqs, in \in MuxRequests : Redirect(s, in)
    \/ \E s \in Reqs, in \in MuxRequests : Receive(s, in)
    \/ \E s \in Reqs : ParsePath(s)
    \/ \E s \in Reqs : QueryConsul(s)
    \/ \E s \in Reqs : DiscoverReturn(s)
    \/ \E s \in Reqs : Forward(s)
    \/ \E s \in Reqs : Respond(s)
    \/ \E s \in Reqs : Finish(s)

MuxSpec == InitMux /\ [][NextMux]_vars

------------------------------------------------------------------------------
(* One handler of the gateway, scheduled fairly, with peers that may be
   silent: they accept the connection and never answer *)

InitLive ==
    /\ deploy = {UsersAt(H1)}
    /\ proc = [i \in Instances |-> "down"]
    /\ catalog = {}
    /\ req = [s \in Reqs |-> IdleReq]
    /\ tPath = <<>>
    /\ tOut = None
    /\ probing = {}
    /\ silent = {}
    /\ gcall = [g \in GSlots |-> IdleCall]
    /\ DB = EmptyDB
    /\ hreq = [h \in HSlots |-> IdleCall]

LiveReqs == {"r1"}

\* a peer stops answering for good: it keeps its connections and is silent
Stall(p) ==
    /\ p \in {ConsulPeer} \cup deploy
    /\ p \notin silent
    /\ silent' = silent \cup {p}
    /\ UNCHANGED <<deploy, proc, catalog, req, tPath, tOut, probing, gcall, DB, hreq>>

\* the steps of the handler of request s
HandlerStep(s) ==
    ParsePath(s) \/ QueryConsul(s) \/ DiscoverReturn(s) \/ Forward(s) \/ Respond(s)

NextLive ==
    \/ \E i \in Instances : Register(i)
    \/ \E i \in Instances : Listen(i)
    \/ \E i \in Instances : Stop(i)
    \/ \E e \in catalog : Probe(e)
    \/ \E p \in {ConsulPeer} \cup Instances : Stall(p)
    \/ \E s \in LiveReqs, in \in InboundRequests : Receive(s, in)
    \/ \E s \in LiveReqs : ParsePath(s)
    \/ \E s \in LiveReqs : QueryConsul(s)
    \/ \E s \in LiveReqs : DiscoverReturn(s)
    \/ \E s \in LiveReqs : Forward(s)
    \/ \E s \in LiveReqs : Respond(s)
    \/ \E s \in LiveReqs : Finish(s)

\* net/http runs every handler in a goroutine of its own
LiveSpec ==
    InitLive /\ [][NextLive]_vars /\ \A s \in LiveReqs : WF_vars(HandlerStep(s))

------------------------------------------------------------------------------
(* Practical 6, api-gateway/handlers: handleGRPCError *)

\* google.golang.org/grpc/codes
GrpcCodes ==
    {"OK", "Canceled", "Unknown", "InvalidArgument", "DeadlineExceeded", "NotFound",
     "AlreadyExists", "PermissionDenied", "ResourceExhausted", "FailedPrecondition",
     "Aborted", "OutOfRange", "Unimplemented", "Internal", "Unavailable", "DataLoss",
     "Unauthenticated"}

\* the error texts a backend puts into its status
Messages == {"user not found", "pq: relation users does not exist", ""}

\* the errors a gRPC call returns: a status error, or another error
GrpcErrors ==
    [grpc : {TRUE}, code : GrpcCodes, msg : Messages]
      \cup [grpc : {FALSE}, code : {"Unknown"}, msg : Messages]

\* handleGRPCError without the case codes.AlreadyExists
HandleGRPCErrorMut(err) ==
    IF ~err.grpc
    THEN HttpError("internal server error", 500)
    ELSE LET httpStatus ==
               CASE err.code = "NotFound"           -> 404
                 [] err.code = "InvalidArgument"    -> 400
                 [] err.code = "PermissionDenied"   -> 403
                 [] err.code = "Unauthenticated"    -> 401
                 [] err.code = "FailedPrecondition" -> 412
                 [] err.code = "Unimplemented"      -> 501
                 [] err.code = "Unavailable"        -> 503
                 [] OTHER                           -> 500
         IN HttpError(err.msg, httpStatus)

\* handleGRPCError: status.FromError, the switch on st.Code(), http.Error
HandleGRPCError(err) ==
    IF ~err.grpc
    THEN HttpError("internal server error", 500)
    ELSE LET httpStatus ==
               CASE err.code = "NotFound"           -> 404
                 [] err.code = "InvalidArgument"    -> 400
                 [] err.code = "AlreadyExists"      -> 409
                 [] err.code = "PermissionDenied"   -> 403
                 [] err.code = "Unauthenticated"    -> 401
                 [] err.code = "FailedPrecondition" -> 412
                 [] err.code = "Unimplemented"      -> 501
                 [] err.code = "Unavailable"        -> 503
                 [] OTHER                           -> 500
         IN HttpError(err.msg, httpStatus)

\* a handler's gRPC call returned err
GrpcFailed(g, err) ==
    /\ gcall[g].pc = "Idle"
    /\ gcall' = [gcall EXCEPT ![g] = [pc |-> "Failed", err |-> err]]
    /\ UNCHANGED <<deploy, proc, catalog, req, tPath, tOut, probing, silent, DB, hreq>>

\* the handler calls handleGRPCError(w, err) and returns
WriteGRPCError(g) ==
    /\ gcall[g].pc = "Failed"
    /\ gcall' = [gcall EXCEPT ![g] = [pc |-> "Written", err |-> gcall[g].err,
                                      resp |-> HandleGRPCError(gcall[g].err)]]
    /\ UNCHANGED <<deploy, proc, catalog, req, tPath, tOut, probing, silent, DB, hreq>>

InitGrpc ==
    /\ deploy = {}
    /\ proc = [i \in Instances |-> "down"]
    /\ catalog = {}
    /\ req = [s \in Reqs |-> IdleReq]
    /\ tPath = <<>>
    /\ tOut = None
    /\ probing = {}
    /\ silent = {}
    /\ gcall = [g \in GSlots |-> IdleCall]
    /\ DB = EmptyDB
    /\ hreq = [h \in HSlots |-> IdleCall]

NextGrpc ==
    \/ \E g \in GSlots, err \in GrpcErrors : GrpcFailed(g, err)
    \/ \E g \in GSlots : WriteGRPCError(g)

GrpcSpec == InitGrpc /\ [][NextGrpc]_vars

------------------------------------------------------------------------------
(* Practical 6, user-service and menu-service: the REST handlers on their
   tables.  A handler's only access to shared state is its one database
   statement, which the database executes atomically. *)

\* http.Error with a message put together from parts
HttpErrorf(parts, code) == [status |-> code, body |-> parts \o <<"\n">>]

\* json.NewEncoder(w).Encode(v): the document and a newline
JsonEncode(v) == <<[json |-> v], "\n">>

\* the bodies the clients post: a JSON document, or bytes that are none
UserBodies ==
    [json : {TRUE}, Name : {"John"}, Email : {"john@example.com", "amy@example.com"}]
      \cup {[json |-> FALSE]}

MenuBodies == [json : {TRUE}, Name : {"Lunch"}] \cup {[json |-> FALSE]}

\* the {id} of the URL: an existing or a missing row, or no number
UrlIds == {"1", "2", "x"}

HCalls ==
    [op : {"CreateUser"}, body : UserBodies] \cup [op : {"CreateMenu"}, body : MenuBodies]
      \cup [op : {"GetUser", "GetMenu"}, id : UrlIds]

\* a Go error value with its text
Error(text) == [error |-> text]

\* the errors of a statement that did not reach the tables
DBDown == Error("dial tcp: connection refused")

\* INSERT INTO users without the unique index on email
InsertUserMut(db, u) ==
    LET id == ToString(db.userSeq + 1)
        row == [ID |-> id, Name |-> u.Name, Email |-> u.Email] IN
    [db |-> [db EXCEPT !.users = @ \cup {row}, !.userSeq = @ + 1], err |-> None, row |-> row]

\* INSERT INTO users: the id comes from the sequence, the unique index on
\* email (gorm:"unique") rejects a second row with the same email
InsertUser(db, u) ==
    LET id == ToString(db.userSeq + 1)
        row == [ID |-> id, Name |-> u.Name, Email |-> u.Email] IN
    IF \E x \in db.users : x.Email = u.Email
    THEN [db |-> [db EXCEPT !.userSeq = @ + 1],
          err |-> Error("duplicate key value violates unique constraint"), row |-> None]
    ELSE [db |-> [db EXCEPT !.users = @ \cup {row}, !.userSeq = @ + 1],
          err |-> None, row |-> row]

\* INSERT INTO menus
InsertMenu(db, m) ==
    LET id == ToString(db.menuSeq + 1)
        row == [ID |-> id, Name |-> m.Name] IN
    [db |-> [db EXCEPT !.menus = @ \cup {row}, !.menuSeq = @ + 1], err |-> None, row |-> row]

\* Where("id = ?", id).First(&v): the row, or the error of the statement
First(table, id, up) ==
    IF ~up THEN [row |-> None, err |-> DBDown]
    ELSE IF id \notin {ToString(n) : n \in 1..(MaxRows + 1)}
    THEN [row |-> None, err |-> Error("invalid input syntax for type bigint")]
    ELSE IF \E x \in table : x.ID = id
    THEN [row |-> CHOOSE x \in table : x.ID = id, err |-> None]
    ELSE [row |-> None, err |-> Error("record not found")]

\* a request reaches a handler
HReceive(h, call) ==
    /\ hreq[h].pc = "Idle"
    /\ hreq' = [hreq EXCEPT ![h] = [pc |-> "Received", call |-> call, data |-> None,
                                    err |-> None, resp |-> None]]
    /\ UNCHANGED <<deploy, proc, catalog, req, tPath, tOut, probing, silent, gcall, DB>>

\* CreateUser / CreateMenu up to the insert: decode the body
DecodeBody(h) ==
    /\ hreq[h].pc = "Received"
    /\ hreq[h].call.op \in {"CreateUser", "CreateMenu"}
    /\ LET r == hreq[h]
           prefix == IF r.call.op = "CreateUser" THEN "Invalid user data: "
                     ELSE "Invalid request body: " IN
       hreq' = [hreq EXCEPT ![h] =
                  IF r.call.body.json
                  THEN [r EXCEPT !.pc = "Decoded", !.data = r.call.body]
                  ELSE [r EXCEPT !.pc = "Done", !.err = Error("invalid character"),
                                 !.resp = HttpErrorf(<<prefix, "invalid character">>, 400)]]
    /\ UNCHANGED <<deploy, proc, catalog, req, tPath, tOut, probing, silent, gcall, DB>>

\* CreateUser that does not look at result.Error
CreateUserMut(h) ==
    /\ hreq[h].pc = "Decoded"
    /\ hreq[h].call.op = "CreateUser"
    /\ DB.userSeq < MaxRows
    /\ \E up \in BOOLEAN :
         LET r == hreq[h]
             result == IF up THEN InsertUser(DB, r.data)
                       ELSE [db |-> DB, err |-> DBDown, row |-> None] IN
         /\ DB' = result.db
         /\ hreq' = [hreq EXCEPT ![h] =
                       [r EXCEPT !.pc = "Done", !.err = result.err,
                                 !.resp = [status |-> 201, body |-> JsonEncode(result.row)]]]
    /\ UNCHANGED <<deploy, proc, catalog, req, tPath, tOut, probing, silent, gcall>>

\* CreateUser from database.DB.Create on
CreateUser(h) ==
    /\ hreq[h].pc = "Decoded"
    /\ hreq[h].call.op = "CreateUser"
    /\ DB.userSeq < MaxRows
    /\ \E up \in BOOLEAN :
         LET r == hreq[h]
             result == IF up THEN InsertUser(DB, r.data)
                       ELSE [db |-> DB, err |-> DBDown, row |-> None] IN
         /\ DB' = result.db
         /\ hreq' = [hreq EXCEPT ![h] =
                       [r EXCEPT !.pc = "Done", !.err = result.err,
                                 !.resp = IF result.err # None
                                          THEN HttpErrorf(<<"Failed to create user: ",
                                                            result.err.error>>, 500)
                                          ELSE [status |-> 201,
                                                body |-> JsonEncode(result.row)]]]
    /\ UNCHANGED <<deploy, proc, catalog, req, tPath, tOut, probing, silent, gcall>>

\* CreateMenu from database.DB.Create on
CreateMenu(h) ==
    /\ hreq[h].pc = "Decoded"
    /\ hreq[h].call.op = "CreateMenu"
    /\ DB.menuSeq < MaxRows
    /\ \E up \in BOOLEAN :
         LET r == hreq[h]
             result == IF up THEN InsertMenu(DB, r.data)
                       ELSE [db |-> DB, err |-> DBDown, row |-> None] IN
         /\ DB' = result.db
         /\ hreq' = [hreq EXCEPT ![h] =
                       [r EXCEPT !.pc = "Done", !.err = result.err,
                                 !.resp = IF result.err # None
                                          THEN HttpErrorf(<<"Failed to create menu: ",
                                                            result.err.error>>, 500)
                                          ELSE [status |-> 201,
                                                body |-> JsonEncode(result.row)]]]
    /\ UNCHANGED <<deploy, proc, catalog, req, tPath, tOut, probing, silent, gcall>>

\* GetUser: any error of the lookup is answered 404
GetUser(h) ==
    /\ hreq[h].pc = "Received"
    /\ hreq[h].call.op = "GetUser"
    /\ \E up \in BOOLEAN :
         LET r == hreq[h]
             found == First(DB.users, r.call.id, up) IN
         hreq' = [hreq EXCEPT ![h] =
                    [r EXCEPT !.pc = "Done", !.err = found.err,
                              !.resp = IF found.err # None
                                       THEN HttpErrorf(<<"User not found with ID: ",
                                                         r.call.id>>, 404)
                                       ELSE [status |-> 200, body |-> JsonEncode(found.row)]]]
    /\ UNCHANGED <<deploy, proc, catalog, req, tPath, tOut, probing, silent, gcall, DB>>

\* GetMenu: any error of the lookup is answered 404
GetMenu(h) ==
    /\ hreq[h].pc = "Received"
    /\ hreq[h].call.op = "GetMenu"
    /\ \E up \in BOOLEAN :
         LET r == hreq[h]
             found == First(DB.menus, r.call.id, up) IN
         hreq' = [hreq EXCEPT ![h] =
                    [r EXCEPT !.pc = "Done", !.err = found.err,
                              !.resp = IF found.err # None
                                       THEN HttpError("Menu item not found", 404)
                                       ELSE [status |-> 200, body |-> JsonEncode(found.row)]]]
    /\ UNCHANGED <<deploy, proc, catalog, req, tPath, tOut, probing, silent, gcall, DB>>

\* the handler has returned
HReturn(h) ==
    /\ hreq[h].pc = "Done"
    /\ hreq' = [hreq EXCEPT ![h] = IdleCall]
    /\ UNCHANGED <<deploy, proc, catalog, req, tPath, tOut, probing, silent, gcall, DB>>

InitCrud ==
    /\ deploy = {}
    /\ proc = [i \in Instances |-> "down"]
    /\ catalog = {}
    /\ req = [s \in Reqs |-> IdleReq]
    /\ tPath = <<>>
    /\ tOut = None
    /\ probing = {}
    /\ silent = {}
    /\ gcall = [g \in GSlots |-> IdleCall]
    /\ DB = EmptyDB
    /\ hreq = [h \in HSlots |-> IdleCall]

NextCrud ==
    \/ \E h \in HSlots, call \in HCalls : HReceive(h, call)
    \/ \E h \in HSlots : DecodeBody(h)
    \/ \E h \in HSlots : CreateUser(h)
    \/ \E h \in HSlots : CreateMenu(h)
    \/ \E h \in HSlots : GetUser(h)
    \/ \E h \in HSlots : GetMenu(h)
    \/ \E h \in HSlots : HReturn(h)

CrudSpec == InitCrud /\ [][NextCrud]_vars

------------------------------------------------------------------------------
(* The path-derived values of routeRequest on every bounded path *)

Paths == UNION {[1..n -> PathSyms] : n \in 0..MaxPathLen}

InitParse ==
    /\ deploy = {}
    /\ proc = [i \in Instances |-> "down"]
    /\ catalog = {}
    /\ req = [s \in Reqs |-> IdleReq]
    /\ tPath \in Paths
    /\ tOut = None
    /\ probing = {}
    /\ silent = {}
    /\ gcall = [g \in GSlots |-> IdleCall]
    /\ DB = EmptyDB
    /\ hreq = [h \in HSlots |-> IdleCall]

ApplyParse ==
    /\ tOut = None
    /\ tOut' = RouteParse(tPath)
    /\ UNCHANGED <<deploy, proc, catalog, req, tPath, probing, silent, gcall, DB, hreq>>

NextParse == ApplyParse

ParseSpec == InitParse /\ [][NextParse]_vars

------------------------------------------------------------------------------
(* Properties *)

NoSlash(str) == \A k \in 1..Len(str) : str[k] # Slash

Slashes(str) == Cardinality(SlashIdx(str))

Live(s) == req[s].pc # "Idle"

Terminal(s) == req[s].pc \in {"Responded", "Failed"}

Visited(s, pc) == Live(s) /\ \E k \in 1..Len(req[s].steps) : req[s].steps[k] = pc

\* C1: for every path /api/<svc>/<rest>, with <svc> free of "/", the values
\* routeRequest derives are the service name <svc>-service and the forward
\* path /<rest>, with the segments of <rest> in their order; an empty <rest>
\* gives the forward path "/".
C1_ParseValid ==
    tOut # None =>
      \A k \in 4..Len(tPath) :
        LET svc  == SubSeq(tPath, 4, k - 1)
            rest == SubSeq(tPath, k + 1, Len(tPath)) IN
        (SubSeq(tPath, 1, 3) = <<Slash, "api", Slash>> /\ tPath[k] = Slash /\ NoSlash(svc))
          => /\ tOut.ok
             /\ tOut.serviceName = svc \o <<"-service">>
             /\ tOut.forwardPath = <<Slash>> \o rest
             /\ (rest = <<>> => tOut.forwardPath = <<Slash>>)

C1_Witness ==
    /\ tPath = <<Slash, "api", Slash, "users", Slash, "7", Slash, "users">>
    /\ tOut # None
    /\ tOut.ok
    /\ tOut.serviceName = <<"users", "-service">>
    /\ tOut.forwardPath = <<Slash, "7", Slash, "users">>

\* a path that starts with "/" and whose first segment is not "api", or that
\* has fewer than two segments after "api"
BadShape(path) ==
    /\ Len(path) > 0
    /\ path[1] = Slash
    /\ \/ Len(path) < 2
       \/ path[2] # "api"
       \/ (Len(path) > 2 /\ path[3] # Slash)
       \/ Slashes(path) < 3

\* C2: a request whose path does not start with the segment "api", or has
\* fewer than two segments after it, is answered 400 and is neither resolved
\* against the registry nor forwarded.
C2_MalformedIs400 ==
    \A s \in Reqs :
      (Live(s) /\ req[s].pc # "Received" /\ BadShape(req[s].path))
        => /\ req[s].pc = "Failed"
           /\ req[s].resp.status = 400
           /\ req[s].nResolve = 0
           /\ req[s].nForward = 0
           /\ req[s].outbound = None
           /\ req[s].steps = <<"Received", "Failed">>

C2_Witness ==
    \E s \in Reqs :
      /\ req[s].pc = "Failed"
      /\ req[s].path = <<Slash, "api", Slash, "users">>
      /\ req[s].resp.status = 400
      /\ \E e \in catalog : e.Name = UsersServiceName /\ e.Status = "passing"

URLOf(e) == [err |-> "", Scheme |-> "http", Host |-> e.Address \o <<":", e.Port>>, Path |-> <<>>]

HealthyNow(cat, name) == {e \in cat : e.Name = name /\ e.Status = "passing"}

Elems(sq) == {sq[k] : k \in 1..Len(sq)}

\* C3 (as claimed): when discoverService returns an endpoint, the endpoint
\* belongs to a record of that name that is healthy in the registry at the
\* moment of the return.
C3_HealthyAtReturn ==
    [][\A s \in Reqs :
         (req[s].pc = "Queried" /\ req'[s].pc = "Resolved")
           => \E e \in HealthyNow(catalog', req[s].serviceName) :
                req'[s].targetURL = URLOf(e)]_vars

\* C3 (amended): the answer to the registry query holds exactly the records
\* of that name that are healthy when the query is answered; discoverService
\* returns an endpoint only of a record in that answer, and an error and no
\* endpoint when the answer is empty.
C3_HealthyAtQuery ==
    [][\A s \in Reqs :
         /\ (req[s].pc = "Parsed" /\ req'[s].pc = "Queried")
              => Elems(req'[s].healthyInstances) = HealthyNow(catalog, req[s].serviceName)
         /\ (req[s].pc = "Queried" /\ req'[s].pc = "Resolved")
              => \E e \in Elems(req[s].healthyInstances) :
                   /\ e.Name = req[s].serviceName
                   /\ e.Status = "passing"
                   /\ req'[s].targetURL = URLOf(e)
         /\ (req[s].pc = "Queried" /\ req[s].healthyInstances = <<>> /\ req'[s] # req[s])
              => /\ req'[s].pc = "Failed"
                 /\ req'[s].targetURL = None]_vars

\* the record behind the returned endpoint has turned critical meanwhile
C3_Witness ==
    \E s \in Reqs :
      /\ req[s].pc = "Resolved"
      /\ req[s].targetURL.Host = <<"h1", ":", "8081">>
      /\ HealthyNow(catalog, req[s].serviceName) = {}

\* the answer of the registry gives no usable endpoint
NoEndpoint(s) ==
    \/ req[s].healthyInstances = <<>>
    \/ \E k \in 1..Len(req[s].healthyInstances[1].Address) :
         req[s].healthyInstances[1].Address[k] = " "

\* C4: when the resolve step fails for a well-formed path, the response is
\* 503 and no request is sent to a backend; the resolve step fails when the
\* registry answers with no healthy instance or with an unparsable endpoint.
C4_ResolveFailureIs503 ==
    \A s \in Reqs :
      /\ (req[s].pc = "Failed" /\ Visited(s, "Parsed") /\ ~Visited(s, "Resolved"))
           => /\ req[s].resp.status = 503
              /\ req[s].nForward = 0
              /\ req[s].outbound = None
              /\ req[s].backend = None
      /\ (Visited(s, "Queried") /\ req[s].pc # "Queried" /\ NoEndpoint(s))
           => /\ req[s].pc = "Failed"
              /\ req[s].resp.status = 503
              /\ req[s].nForward = 0

C4_Witness ==
    \E s \in Reqs :
      /\ req[s].pc = "Failed"
      /\ req[s].resp.status = 503
      /\ req[s].healthyInstances # <<>>
      /\ req[s].healthyInstances[1].Address = HBad

\* C5 (as claimed): resolve succeeded and the backend cannot be reached at
\* connection time: the response has status 503.
C5_UnreachableIs503 ==
    \A s \in Reqs :
      (req[s].pc = "Failed" /\ Visited(s, "Resolved") /\ ~Visited(s, "Forwarded"))
        => req[s].resp.status = 503

\* C5 (amended): resolve succeeded and the backend cannot be reached at
\* connection time: the response has status 502 and an empty body.
C5_UnreachableIs502 ==
    \A s \in Reqs :
      (req[s].pc = "Failed" /\ Visited(s, "Resolved") /\ ~Visited(s, "Forwarded"))
        => /\ req[s].resp.status = 502
           /\ req[s].resp.body = <<>>
           /\ req[s].nForward = 1

C5_Witness ==
    \E s \in Reqs :
      /\ req[s].pc = "Failed"
      /\ Visited(s, "Resolved")
      /\ ~Visited(s, "Forwarded")
      /\ req[s].resp.status = 502
      /\ Accepting(req[s].targetURL) = {}

\* C6: when the backend returns a response to a forwarded request, the
\* caller receives the backend's status code and body, whatever the status.
C6_PassThrough ==
    \A s \in Reqs :
      req[s].pc = "Responded"
        => /\ req[s].backendResp \in
                BackendResponses(req[s].backend, req[s].outbound.method,
                                 req[s].outbound.url.Path)
           /\ req[s].resp.status = req[s].backendResp.status
           /\ req[s].resp.body = req[s].backendResp.body

C6_Witness ==
    \E s \in Reqs :
      /\ req[s].pc = "Responded"
      /\ req[s].backendResp.status = 500
      /\ req[s].resp = [status |-> 500, body |-> <<"internal error">>]

\* the path /<rest> of a request path /api/<svc>/<rest>
RestPath(path) ==
    LET k == CHOOSE j \in 4..Len(path) :
               path[j] = Slash /\ \A m \in 4..(j - 1) : path[m] # Slash
    IN SubSeq(path, k, Len(path))

C8_UserRouteServed ==
    \A s \in Reqs :
      (req[s].pc = "Responded" /\ req[s].method = "GET"
         /\ req[s].path = <<Slash, "api", Slash, "users", Slash, "7">>)
        => req[s].resp = [status |-> 200,
                          body |-> <<"User Data - Service: ", "users", "-service",
                                     ", ID: ", "7", "\n">>]

StepOrder == <<"Received", "Parsed", "Queried", "Resolved", "Forwarded", "Responded">>

\* C9: a request goes through Received, Parsed, Resolved, Forwarded,
\* Responded in that order (the registry query lying between Parsed and
\* Resolved): the registry is queried only after the path parsed, a backend
\* is contacted only after resolve succeeded, and after a failure the request
\* is in Failed, has its response, and takes no later step.
C9_StepOrder ==
    /\ [](\A s \in Reqs : Live(s) =>
            LET st == req[s].steps
                n  == Len(st)
                m  == IF st[n] = "Failed" THEN n - 1 ELSE n IN
            /\ req[s].pc = st[n]
            /\ m >= 1
            /\ SubSeq(st, 1, m) = SubSeq(StepOrder, 1, m)
            /\ (req[s].nResolve > 0 => Visited(s, "Parsed"))
            /\ (req[s].nForward > 0 => Visited(s, "Resolved"))
            /\ (req[s].outbound # None => Visited(s, "Resolved"))
            /\ (req[s].resp # None <=> Terminal(s)))
    /\ [][\A s \in Reqs : Terminal(s) => req'[s] \in {req[s], IdleReq}]_vars

C9_Witness ==
    \E s \in Reqs :
      /\ req[s].pc = "Failed"
      /\ req[s].steps = <<"Received", "Parsed", "Queried", "Resolved", "Forwarded", "Failed">>
      /\ req[s].nResolve = 1
      /\ req[s].nForward = 1

\* C10: a request makes at most one registry resolution and at most one
\* forward attempt, also when its resolution or its forward failed while a
\* healthy instance of the service exists.
C10_NoRetry ==
    \A s \in Reqs :
      Live(s) => /\ req[s].nResolve <= 1
                 /\ req[s].nForward <= 1
                 /\ Cardinality({k \in 1..Len(req[s].steps) :
                                   req[s].steps[k] \in {"Queried", "Forwarded", "Failed"}}) <= 3

C10_Witness ==
    \E s \in Reqs :
      /\ req[s].pc = "Failed"
      /\ req[s].nForward = 1
      /\ req[s].resp.status = 502
      /\ \E e \in HealthyNow(catalog, req[s].serviceName) :
           /\ Accepting(URLOf(e)) # {}
           /\ URLOf(e) # req[s].targetURL

\* C11: a record that failed FailuresBeforeCritical probes in a row is
\* critical; a resolve that starts then leaves it out of the answer and
\* fails with 503 when the answer is empty; a probe that passes makes the
\* record passing again, and a resolve that starts then has it in the answer.
C11_HealthFlips ==
    /\ [](\A e \in catalog : e.Fails >= FailuresBeforeCritical => e.Status = "critical")
    /\ [](\A s \in Reqs :
            (req[s].pc = "Failed" /\ Visited(s, "Queried") /\ req[s].healthyInstances = <<>>)
              => req[s].resp.status = 503)
    /\ [][\A s \in Reqs :
            (req[s].pc = "Parsed" /\ req'[s].pc = "Queried")
              => \A e \in catalog :
                   e.Name = req[s].serviceName
                     => /\ (e.Fails >= FailuresBeforeCritical
                              => e \notin Elems(req'[s].healthyInstances))
                        /\ (e.Status = "passing"
                              => e \in Elems(req'[s].healthyInstances))]_vars
    /\ [][\A e \in catalog : \A e2 \in catalog' :
            (e2.ID = e.ID /\ proc' = proc /\ e.Fails >= FailuresBeforeCritical
               /\ e2.Fails = 0)
              => e2.Status = "passing"]_vars

\* the only instance failed its probe and the resolve found nothing
C11_Witness ==
    \E s \in Reqs :
      /\ req[s].pc = "Failed"
      /\ Visited(s, "Queried")
      /\ req[s].healthyInstances = <<>>
      /\ req[s].resp.status = 503
      /\ \E e \in catalog : /\ e.Name = req[s].serviceName
                            /\ e.Fails >= FailuresBeforeCritical

\* the place of a record in the registry's order (the order of the IDs)
Rank(e) == CHOOSE k \in 1..Len(SortedHosts) : SortedHosts[k] = e.Address

\* C12: the registry's answer lists the healthy records of the name in one
\* fixed order, and discoverService returns the first of the list: resolves
\* that got the same answer return the same endpoint.
C12_FirstMatch ==
    /\ [](\A s \in Reqs :
            (Live(s) /\ req[s].targetURL # None)
              => req[s].targetURL = URLOf(req[s].healthyInstances[1]))
    /\ [](\A s, t \in Reqs :
            (Live(s) /\ Live(t) /\ req[s].targetURL # None /\ req[t].targetURL # None
               /\ req[s].healthyInstances = req[t].healthyInstances)
              => req[s].targetURL = req[t].targetURL)
    /\ [][\A s \in Reqs :
            (req[s].pc = "Parsed" /\ req'[s].pc = "Queried")
              => LET ans == req'[s].healthyInstances IN
                 /\ Elems(ans) = HealthyNow(catalog, req[s].serviceName)
                 /\ \A j, k \in 1..Len(ans) : j < k => Rank(ans[j]) < Rank(ans[k])]_vars

C12_Witness ==
    \E s, t \in Reqs :
      /\ s # t
      /\ req[s].pc = "Resolved"
      /\ req[t].pc = "Resolved"
      /\ Len(req[s].healthyInstances) = 2
      /\ Len(req[t].healthyInstances) = 2
      /\ req[s].targetURL.Host = <<"h1", ":", "8081">>
      /\ req[t].targetURL = req[s].targetURL

\* C13: a failure of any kind leaves everything but the failing request as
\* it was; the failed handler returns, its slot is as before its request and
\* takes every request again.
C13_FailureNotFatal ==
    /\ [](\A s \in Reqs :
            /\ Terminal(s) => ENABLED Finish(s)
            /\ req[s].pc = "Idle"
                 => /\ req[s] = IdleReq
                    /\ \A in \in InboundRequests : ENABLED Receive(s, in))
    /\ [][\A s \in Reqs :
            (req[s].pc # "Failed" /\ req'[s].pc = "Failed")
              => /\ \A t \in Reqs \ {s} : req'[t] = req[t]
                 /\ UNCHANGED <<deploy, proc, catalog>>]_vars
    /\ [][\A s \in Reqs :
            (req[s].pc = "Failed" /\ req'[s] # req[s]) => req'[s] = IdleReq]_vars

C13_Witness ==
    \E s, t \in Reqs :
      /\ req[s].pc = "Failed"
      /\ req[s].resp.status = 502
      /\ req[t].pc = "Responded"
      /\ req[t].resp.status = 200
      /\ ENABLED Finish(s)

\* a symbol of the log's arguments
InLog(s, sym) ==
    \E k \in 1..Len(req[s].log) : \E j \in 1..Len(req[s].log[k].args) :
      \E m \in 1..Len(req[s].log[k].args[j]) : req[s].log[k].args[j][m] = sym

HasLine(s, format, args) ==
    \E k \in 1..Len(req[s].log) : req[s].log[k] = [format |-> format, args |-> args]

HasFormat(s, format) ==
    \E k \in 1..Len(req[s].log) : req[s].log[k].format = format

\* C14 (as claimed): the log of a finished request has its method and path,
\* its resolved target or the reason of its failure, and the status code of
\* its response.
C14_LogComplete ==
    \A s \in Reqs :
      Terminal(s)
        => /\ HasLine(s, "Incoming request: %s %s", <<<<req[s].method>>, req[s].path>>)
           /\ \/ HasFormat(s, "Located service at: %s")
              \/ HasFormat(s, "Service discovery failed for '%s': %v")
              \/ HasFormat(s, "http: proxy error: %v")
           /\ InLog(s, ToString(req[s].resp.status))

\* C14 (amended): the log of a finished request has its method and path; it
\* has the resolved target when resolve succeeded, the error of
\* discoverService when resolve failed and the proxy's error when the forward
\* failed; a request rejected with 400 has no further line, and no line has
\* the status code of the response.
C14_LogContent ==
    \A s \in Reqs :
      Terminal(s)
        => /\ req[s].log[1] = [format |-> "Incoming request: %s %s",
                               args |-> <<<<req[s].method>>, req[s].path>>]
           /\ Visited(s, "Resolved")
                <=> (/\ req[s].targetURL # None
                     /\ HasLine(s, "Located service at: %s",
                                <<<<"http://">> \o req[s].targetURL.Host>>))
           /\ (req[s].pc = "Failed" /\ Visited(s, "Parsed") /\ ~Visited(s, "Resolved"))
                <=> \E k \in 1..Len(req[s].log) :
                      /\ req[s].log[k].format = "Service discovery failed for '%s': %v"
                      /\ req[s].log[k].args[1] = req[s].serviceName
                      /\ req[s].log[k].args[2] # <<>>
           /\ (req[s].pc = "Failed" /\ Visited(s, "Resolved"))
                <=> HasFormat(s, "http: proxy error: %v")
           /\ req[s].resp.status = 400 => Len(req[s].log) = 1
           /\ ~InLog(s, ToString(req[s].resp.status))

C14_Witness ==
    \E s \in Reqs :
      /\ req[s].pc = "Failed"
      /\ req[s].resp.status = 503
      /\ Len(req[s].log) = 2
      /\ req[s].log[2] = [format |-> "Service discovery failed for '%s': %v",
                          args |-> <<UsersServiceName,
                                     <<"no healthy instances available for '">>
                                        \o UsersServiceName \o <<"'">>>>]

\* str holds sub as a run of symbols
Contains(str, sub) ==
    \E k \in 0..(Len(str) - Len(sub)) : SubSeq(str, k + 1, k + Len(sub)) = sub

\* C15 (as claimed): a failure response has a non-empty body that names the
\* service that was attempted.
C15_BodyNamesService ==
    \A s \in Reqs :
      req[s].pc = "Failed"
        => /\ req[s].resp.body # <<>>
           /\ req[s].serviceName # <<>> => Contains(req[s].resp.body, req[s].serviceName)

\* C15 (amended): a parse failure has the body "Invalid path format" and a
\* resolve failure the body "Service not available", each a line of plain
\* text that names no service; a forward failure has status 502 and an empty
\* body.
C15_FailureBodies ==
    \A s \in Reqs :
      req[s].pc = "Failed"
        => /\ ~Visited(s, "Parsed")
                => req[s].resp = [status |-> 400, body |-> <<"Invalid path format", "\n">>]
           /\ (Visited(s, "Parsed") /\ ~Visited(s, "Resolved"))
                => req[s].resp = [status |-> 503, body |-> <<"Service not available", "\n">>]
           /\ Visited(s, "Resolved")
                => req[s].resp = [status |-> 502, body |-> <<>>]
           /\ req[s].serviceName # <<>>
                => ~Contains(req[s].resp.body, req[s].serviceName)

C15_Witness ==
    \E s \in Reqs :
      /\ req[s].pc = "Failed"
      /\ req[s].serviceName = UsersServiceName
      /\ req[s].resp = [status |-> 503, body |-> <<"Service not available", "\n">>]

\* the symbols of the addresses of the backends
AddressSyms ==
    UNION {Elems(i.hostname) : i \in Instances} \cup {i.servicePort : i \in Instances}

\* C16: a failure response of the gateway holds no part of a backend's
\* address, and two failures with the same status have the same response
\* whatever instances the registry named.
C16_NoAddressInFailure ==
    /\ \A s \in Reqs :
         req[s].pc = "Failed"
           => \A k \in 1..Len(req[s].resp.body) : req[s].resp.body[k] \notin AddressSyms
    /\ \A s, t \in Reqs :
         (req[s].pc = "Failed" /\ req[t].pc = "Failed"
            /\ req[s].resp.status = req[t].resp.status)
           => req[s].resp = req[t].resp

C16_Witness ==
    \E s, t \in Reqs :
      /\ req[s].pc = "Failed"
      /\ req[t].pc = "Failed"
      /\ req[s].targetURL # None
      /\ req[t].targetURL # None
      /\ req[s].targetURL.Host # req[t].targetURL.Host
      /\ req[s].resp = req[t].resp
      /\ InLog(s, "h1")
      /\ InLog(t, "h2")

\* the token <svc> of a request path /api/<svc>/<rest>
SvcToken(path) ==
    LET k == CHOOSE j \in 4..Len(path) :
               path[j] = Slash /\ \A m \in 4..(j - 1) : path[m] # Slash
    IN SubSeq(path, 4, k - 1)

\* C17: no step changes two requests, and what a request derives comes
\* from its own path and from the answer the registry gave to it: its service
\* name, its forward path, its target and its response.
C17_RequestsIndependent ==
    /\ [][\A s, t \in Reqs : s # t => (req'[s] = req[s] \/ req'[t] = req[t])]_vars
    /\ [](\A s \in Reqs :
            Live(s)
              => /\ Visited(s, "Parsed")
                      => /\ req[s].serviceName = SvcToken(req[s].path) \o <<"-service">>
                         /\ \A e \in Elems(req[s].healthyInstances) :
                              e.Name = req[s].serviceName
                 /\ req[s].targetURL # None
                      => req[s].targetURL = URLOf(req[s].healthyInstances[1])
                 /\ req[s].outbound # None
                      => /\ req[s].outbound.url.Host = req[s].targetURL.Host
                         /\ req[s].outbound.url.Path = RestPath(req[s].path)
                 /\ req[s].pc = "Responded"
                      => req[s].resp \in BackendResponses(req[s].backend, req[s].method,
                                                          RestPath(req[s].path)))

C17_Witness ==
    \E s, t \in Reqs :
      /\ req[s].pc = "Forwarded"
      /\ req[s].serviceName = UsersServiceName
      /\ req[s].outbound.url.Path = <<Slash, "users", Slash, "7">>
      /\ req[t].pc = "Queried"
      /\ req[t].serviceName = ProductsServiceName
      /\ req[t].healthyInstances = <<>>

\* C18: a resolve and a health check never wait for each other: a request
\* that is to query the registry or to use its answer can do so while checks
\* are under way, and a check can start and finish whatever the requests do.
C18_NoBlocking ==
    /\ \A s \in Reqs :
         /\ req[s].pc = "Parsed" => ENABLED QueryConsul(s)
         /\ req[s].pc = "Queried" => ENABLED DiscoverReturn(s)
    /\ \A e \in catalog : e.ID \notin probing => ENABLED ProbeStart(e)
    /\ \A id \in probing : ENABLED ProbeFinish(id)

C18_Witness ==
    \E s, t \in Reqs :
      /\ probing # {}
      /\ req[s].pc = "Parsed"
      /\ req[t].pc = "Queried"
      /\ ENABLED QueryConsul(s)
      /\ ENABLED DiscoverReturn(t)

RecordsOf(i) == {e \in catalog : e.ID = i.serviceName \o <<"-">> \o i.hostname}

\* C19: a service has its record from its registration on, and the record
\* of a stopped service is gone once its health check has failed.
C19_StoppedHasNoRecord ==
    \A i \in deploy :
      /\ proc[i] # "down" => RecordsOf(i) # {}
      /\ proc[i] = "down"
           => \A e \in RecordsOf(i) : e.Fails < FailuresBeforeCritical

\* C20: the response to a GET is fixed by the request, the registry's
\* answer and the backend: a malformed path gives 400, a failed resolve 503,
\* a failed forward 502, otherwise the backend's response; two equal GETs
\* with the same answer of the registry and the same result of the backend
\* get the same response.
C20_SameRequestSameResponse ==
    /\ \A s \in Reqs :
         (Terminal(s) /\ req[s].method = "GET")
           => req[s].resp =
                IF BadShape(req[s].path)
                THEN [status |-> 400, body |-> <<"Invalid path format", "\n">>]
                ELSE IF req[s].targetURL = None
                THEN [status |-> 503, body |-> <<"Service not available", "\n">>]
                ELSE IF req[s].backendResp = None
                THEN [status |-> 502, body |-> <<>>]
                ELSE req[s].backendResp
    /\ \A s, t \in Reqs :
         (Terminal(s) /\ Terminal(t) /\ req[s].method = "GET" /\ req[t].method = "GET"
            /\ req[s].path = req[t].path
            /\ req[s].healthyInstances = req[t].healthyInstances
            /\ req[s].steps = req[t].steps
            /\ req[s].backendResp = req[t].backendResp)
           => req[s].resp = req[t].resp

C20_Witness ==
    \E s, t \in Reqs :
      /\ s # t
      /\ req[s].pc = "Responded"
      /\ req[t].pc = "Responded"
      /\ req[s].method = "GET"
      /\ req[s].path = <<Slash, "api", Slash, "users", Slash, "users", Slash, "7">>
      /\ req[t].method = "GET"
      /\ req[t].path = req[s].path
      /\ req[s].resp.status = 200
      /\ req[t].resp = req[s].resp

Written(g) == gcall[g].pc = "Written"

\* C21: handleGRPCError answers a status error of code NotFound with 404,
\* InvalidArgument with 400, AlreadyExists with 409, PermissionDenied with
\* 403 and Internal with 500.
C21_DocumentedMapping ==
    \A g \in GSlots :
      (Written(g) /\ gcall[g].err.grpc)
        => LET c == gcall[g].err.code
               st == gcall[g].resp.status IN
           /\ c = "NotFound" => st = 404
           /\ c = "InvalidArgument" => st = 400
           /\ c = "AlreadyExists" => st = 409
           /\ c = "PermissionDenied" => st = 403
           /\ c = "Internal" => st = 500

C21_Witness ==
    \E g, k \in GSlots :
      /\ Written(g) /\ gcall[g].err.grpc
      /\ gcall[g].err.code = "AlreadyExists" /\ gcall[g].resp.status = 409
      /\ Written(k) /\ gcall[k].err.grpc
      /\ gcall[k].err.code = "Internal" /\ gcall[k].resp.status = 500

\* C22: the response handleGRPCError writes does not depend on the
\* message of the error: two errors of the same kind and code get the same
\* response.
C22_MessageSanitized ==
    \A g, k \in GSlots :
      (Written(g) /\ Written(k)
         /\ gcall[g].err.grpc = gcall[k].err.grpc
         /\ gcall[g].err.code = gcall[k].err.code)
        => gcall[g].resp = gcall[k].resp

Lookups == {"GetUser", "GetMenu"}

Creates == {"CreateUser", "CreateMenu"}

TableOf(db, op) == IF op \in {"CreateUser", "GetUser"} THEN db.users ELSE db.menus

\* C23: GetUser and GetMenu answer 200 with the record when the lookup
\* found it, 404 when there is no record of that id, and 500 when the lookup
\* failed because of the database.
C23_LookupStatus ==
    \A h \in HSlots :
      (hreq[h].pc = "Done" /\ hreq[h].call.op \in Lookups)
        => /\ hreq[h].err = None
                => /\ hreq[h].resp.status = 200
                   /\ \E row \in TableOf(DB, hreq[h].call.op) :
                        row.ID = hreq[h].call.id /\ hreq[h].resp.body = JsonEncode(row)
           /\ hreq[h].err \in {Error("record not found"),
                               Error("invalid input syntax for type bigint")}
                => hreq[h].resp.status = 404
           /\ hreq[h].err = DBDown => hreq[h].resp.status = 500

\* C24: no two stored users have the same email, and a CreateUser whose
\* email is stored already gets an error response and adds no record, in
\* every interleaving of the handlers.
C24_EmailUnique ==
    /\ [](\A x, y \in DB.users : x.Email = y.Email => x = y)
    /\ [][\A h \in HSlots :
            (/\ hreq[h].pc = "Decoded" /\ hreq[h].call.op = "CreateUser"
             /\ hreq'[h].pc = "Done"
             /\ \E x \in DB.users : x.Email = hreq[h].data.Email)
              => /\ hreq'[h].resp.status >= 400
                 /\ DB'.users = DB.users]_vars

C24_Witness ==
    \E h, k \in HSlots :
      /\ hreq[h].pc = "Done" /\ hreq[h].call.op = "CreateUser"
      /\ hreq[h].resp.status = 201
      /\ hreq[k].pc = "Done" /\ hreq[k].call.op = "CreateUser"
      /\ hreq[k].data = hreq[h].data
      /\ hreq[k].resp.status = 500
      /\ hreq[k].err = Error("duplicate key value violates unique constraint")
      /\ Cardinality({x \in DB.users : x.Email = hreq[h].data.Email}) = 1

C26_EventuallyTerminal ==
    /\ [](\A s \in Reqs : Live(s) => (Terminal(s) <=> req[s].resp # None))
    /\ \A s \in Reqs : (req[s].pc = "Received") ~> Terminal(s)

\* C27: a backend starts listening only after its registration succeeded,
\* so a serving backend has a record; a failed registration ends the process,
\* which serves nothing and leaves the registry as it was; and between
\* registration and listening the record exists while nobody accepts the
\* connections of its health check.
C27_RegisterBeforeListen ==
    /\ [](\A i \in Instances :
            /\ proc[i] = "listening"
                 => \E e \in catalog : /\ e.ID = Registration(i).ID
                                       /\ e.Address = i.hostname /\ e.Port = i.servicePort
            /\ proc[i] = "registered"
                 => /\ RecordsOf(i) # {}
                    /\ i \notin Listening(i.hostname, i.servicePort))
    /\ [][\A i \in Instances :
            /\ (proc[i] # "listening" /\ proc'[i] = "listening")
                 => (proc[i] = "registered" /\ RecordsOf(i) # {})
            /\ (proc[i] = "down" /\ proc'[i] = "exited")
                 => catalog' = catalog
            /\ proc[i] = "exited" => proc'[i] \in {"exited", "registered"}]_vars

C27_Witness ==
    \E i \in deploy :
      /\ proc[i] = "registered"
      /\ \E e \in RecordsOf(i) : e.Status = "critical" /\ e.Fails = FailuresBeforeCritical
      /\ Listening(i.hostname, i.servicePort) = {}
      /\ \E j \in deploy : proc[j] = "exited" /\ RecordsOf(j) = {}

\* C28: the registry holds at most one record per record id, the id is the
\* service name, "-" and the hostname, and a registration replaces the record
\* of its id by the new one and leaves the other records alone.
C28_OneRecordPerHost ==
    /\ [](\A e, f \in catalog : e.ID = f.ID => e = f)
    /\ [](\A e \in catalog : e.ID = e.Name \o <<"-">> \o e.Address)
    /\ [][\A i \in Instances :
            (proc[i] # "registered" /\ proc'[i] = "registered")
              => LET id == i.serviceName \o <<"-">> \o i.hostname IN
                 /\ {e \in catalog' : e.ID = id} = {Registration(i)}
                 /\ {e \in catalog' : e.ID # id} = {e \in catalog : e.ID # id}]_vars

C28_Witness ==
    \E s \in Reqs, i \in deploy :
      /\ req[s].pc = "Queried"
      /\ \E e \in Elems(req[s].healthyInstances) :
           e.ID = Registration(i).ID /\ e.Status = "passing"
      /\ proc[i] = "registered"
      /\ RecordsOf(i) = {Registration(i)}
      /\ Cardinality(catalog) = Cardinality(deploy)

\* the path is /api//<rest>: the service token is empty
EmptyToken(path) ==
    Len(path) >= 4 /\ SubSeq(path, 1, 4) = <<Slash, "api", Slash, Slash>>

Answered(s) == req[s].pc \in {"Responded", "Failed", "Redirected"}

\* C29 as stated: a request with an empty service token is answered 503,
\* no service of the name "-service" being registered, and never 400.
C29_EmptyTokenIs503 ==
    \A s \in Reqs :
      (Answered(s) /\ EmptyToken(req[s].path))
        => /\ req[s].serviceName = <<"-service">>
           /\ req[s].resp.status = 503

\* C29: a request with an empty service token and another method than
\* CONNECT does not reach routeRequest: it is answered 301 with the clean
\* path as location.  routeRequest, given such a path, does not reject it: it
\* derives the service name "-service", queries the registry for it and
\* answers 503, no service of that name being registered, never 400.
C29_EmptyTokenRedirected ==
    \A s \in Reqs :
      (Live(s) /\ EmptyToken(req[s].path))
        => IF req[s].method # "CONNECT"
           THEN /\ req[s].pc = "Redirected"
                /\ req[s].resp.status = 301
                /\ req[s].resp.location
                     = <<Slash, "api", Slash>> \o SubSeq(req[s].path, 5, Len(req[s].path))
                /\ req[s].log = <<>>
                /\ req[s].nResolve = 0
                /\ req[s].path = <<Slash, "api", Slash, Slash, "7">>
                     => RouteParse(req[s].resp.location) = [ok |-> FALSE, status |-> 400]
           ELSE /\ req[s].pc # "Redirected"
                /\ Visited(s, "Parsed") => req[s].serviceName = <<"-service">>
                /\ Terminal(s)
                     => /\ Visited(s, "Parsed")
                        /\ req[s].nResolve = 1
                        /\ req[s].resp.status = 503

C29_Witness ==
    \E s, t \in Reqs :
      /\ req[s].pc = "Redirected"
      /\ req[s].path = <<Slash, "api", Slash, Slash, "7">>
      /\ req[s].resp.location = <<Slash, "api", Slash, "7">>
      /\ req[t].pc = "Failed"
      /\ req[t].method = "CONNECT"
      /\ req[t].path = req[s].path
      /\ req[t].serviceName = <<"-service">>
      /\ req[t].resp = HttpError("Service not available", 503)

====
